---- MODULE Spec2Model ----
(***************************************************************************)
(* Package acquisition of typst-cli (crates/typst-cli/src/package.rs):     *)
(* the mirror registry PACKAGE_MIRRORS, prepare_package, download_package, *)
(* determine_latest_version and download_index, over a file system with a  *)
(* persistent-data root, a cache root and a user configuration file.       *)
(* Strings are sequences of symbols; a symbol is one character, or a       *)
(* stretch of text holding no '$' that is never matched by a pattern.      *)
(***************************************************************************)
EXTENDS Integers, Sequences, FiniteSets, TLC

\* ------------------------------------------------------------------ bounds

\* Longest package index the index server answers with.
MaxIndex == 2
\* Most entries of one package directory under the data root.
MaxEntries == 2
\* Calls each thread of the threaded specification makes.
MaxThreadCalls == 1
MaxProcCalls == 2
MaxPieces == 3

\* ------------------------------------------------------------ the universe

Threads == {1, 2}
Procs == {"p1", "p2"}
NoProc == "none"

Namespaces == {"preview", "local"}
PkgNames == {<<"a">>, <<"b">>}
Versions == {<<0, 1, 5>>, <<0, 2, 0>>, <<0, 10, 0>>}

\* ----------------------------------------------------------------- strings

NAME == <<"$", "n", "a", "m", "e">>
VERSION == <<"$", "v", "e", "r", "s", "i", "o", "n">>
DigitSyms == <<"0", "1", "2", "3", "4", "5", "6", "7", "8", "9">>

StartsWithAt(s, i, pat) ==
    /\ i + Len(pat) - 1 <= Len(s)
    /\ \A k \in 1..Len(pat) : s[i + k - 1] = pat[k]

RECURSIVE ReplaceFrom(_, _, _, _)
ReplaceFrom(s, i, pat, to) ==
    IF i > Len(s) THEN <<>>
    ELSE IF StartsWithAt(s, i, pat)
         THEN to \o ReplaceFrom(s, i + Len(pat), pat, to)
         ELSE <<s[i]>> \o ReplaceFrom(s, i + 1, pat, to)

\* str::replace: every non-overlapping match of pat, left to right.
replace(s, pat, to) == ReplaceFrom(s, 1, pat, to)

RECURSIVE DigitsOf(_)
DigitsOf(n) ==
    IF n < 10 THEN <<DigitSyms[n + 1]>>
    ELSE DigitsOf(n \div 10) \o <<DigitSyms[(n % 10) + 1]>>

\* Display of PackageVersion: major.minor.patch.
VersionToString(v) ==
    DigitsOf(v[1]) \o <<".">> \o DigitsOf(v[2]) \o <<".">> \o DigitsOf(v[3])

IsDigit(c) == \E d \in 1..10 : DigitSyms[d] = c
DigitValue(c) == (CHOOSE d \in 1..10 : DigitSyms[d] = c) - 1

RECURSIVE NumberOf(_)
NumberOf(s) ==
    IF Len(s) = 0 THEN 0
    ELSE 10 * NumberOf(SubSeq(s, 1, Len(s) - 1)) + DigitValue(s[Len(s)])

\* s.split('.'): the parts between the dots.
RECURSIVE SplitDots(_, _, _)
SplitDots(s, i, cur) ==
    IF i > Len(s) THEN <<cur>>
    ELSE IF s[i] = "." THEN <<cur>> \o SplitDots(s, i + 1, <<>>)
    ELSE SplitDots(s, i + 1, Append(cur, s[i]))

IsNumber(part) == Len(part) > 0 /\ \A k \in 1..Len(part) : IsDigit(part[k])

\* FromStr of PackageVersion: exactly three non-empty decimal parts.
VersionParses(s) ==
    LET parts == SplitDots(s, 1, <<>>)
    IN  Len(parts) = 3 /\ \A k \in 1..3 : IsNumber(parts[k])

VersionFromStr(s) ==
    LET parts == SplitDots(s, 1, <<>>)
    IN  <<NumberOf(parts[1]), NumberOf(parts[2]), NumberOf(parts[3])>>

\* Ord of PackageVersion: major, then minor, then patch.
VersionLeq(v, w) ==
    \/ v[1] < w[1]
    \/ v[1] = w[1] /\ v[2] < w[2]
    \/ v[1] = w[1] /\ v[2] = w[2] /\ v[3] <= w[3]

\* ----------------------------------------------------------- mirror entries

HOST == <<"https://packages.typst.org">>

\* Mutant of package_download_url: the two arguments are taken for each other.
package_download_url_swapped(path, pkg_name, pkg_version) ==
    replace(replace(path, NAME, pkg_version), VERSION, pkg_name)

\* PkgMirror::package_download_url
package_download_url(path, pkg_name, pkg_version) ==
    replace(replace(path, NAME, pkg_name), VERSION, pkg_version)

\* MirrorConfiguration::default()
DefaultMirrors ==
    "preview" :> (HOST \o <<"/preview/">> \o NAME \o <<"-">> \o VERSION \o <<".tar.gz">>)

\* Templates a user writes into pkg-mirror.toml.
UserTemplate(ns) ==
    IF ns = "preview"
    THEN <<"https://mirror.example/">> \o VERSION \o <<"/">> \o NAME \o <<".tgz">>
    ELSE <<"https://local.example/">> \o NAME \o <<"/">> \o NAME \o <<"-">> \o VERSION

EmptyMap == [ns \in {} |-> <<>>]

\* ------------------------------------------------------------ configuration

\* <config_dir>/typst/pkg-mirror.toml. kind: "nodir" (dirs::config_dir() is
\* None), "absent", "unopenable" (exists, File::open fails) or "file".
\* A file holds the tables of `entries` (namespaces, in file order, each with
\* its path template) and, when not wellFormed, text after them that is no
\* TOML.
NoFile(kind) == [kind |-> kind, entries |-> <<>>, wellFormed |-> TRUE]
FileEntries ==
    {<<>>, <<"local">>, <<"preview">>, <<"preview", "local">>, <<"local", "preview">>}
Configs ==
    {NoFile("nodir"), NoFile("absent"), NoFile("unopenable")}
    \cup {[kind |-> "file", entries |-> e, wellFormed |-> w] :
            e \in FileEntries, w \in BOOLEAN}

EntriesMap(entries) ==
    [ns \in {entries[k] : k \in 1..Len(entries)} |-> UserTemplate(ns)]

ParseErr == [ok |-> FALSE, map |-> EmptyMap]
ParseOk(entries) == [ok |-> TRUE, map |-> EntriesMap(entries)]

\* read_to_string followed by toml::from_str. The result of read_to_string is
\* dropped: when the read fails, `content` is what was read until then, a
\* prefix of the file, which parses or not on its own.
ReadAndParse(cfg, readOk, cut, clean) ==
    IF readOk
    THEN IF cfg.wellFormed THEN ParseOk(cfg.entries) ELSE ParseErr
    ELSE IF clean THEN ParseOk(SubSeq(cfg.entries, 1, cut)) ELSE ParseErr

\* Mutant of InsertAll: an entry is inserted only where the defaults have none.
InsertAll_keepDefault(mirrors, mirror_config) ==
    [ns \in DOMAIN mirrors \cup DOMAIN mirror_config |->
        IF ns \in DOMAIN mirrors THEN mirrors[ns] ELSE mirror_config[ns]]

\* lines 95-98: every parsed entry is inserted over the defaults.
InsertAll(mirrors, mirror_config) ==
    [ns \in DOMAIN mirrors \cup DOMAIN mirror_config |->
        IF ns \in DOMAIN mirror_config THEN mirror_config[ns] ELSE mirrors[ns]]

\* ------------------------------------------------------------- file system

Pkgs ==
    { [namespace |-> "preview", name |-> <<"a">>, version |-> <<0, 2, 0>>],
      [namespace |-> "preview", name |-> <<"b">>, version |-> <<0, 1, 5>>],
      [namespace |-> "local", name |-> <<"b">>, version |-> <<0, 10, 0>>] }
NoPkg == [namespace |-> "", name |-> <<>>, version |-> <<>>]

DirKeys == Namespaces \X PkgNames
EmptyTree == [k \in DirKeys |-> {}]

Dir(name) == [name |-> name, kind |-> "dir"]
\* The data root holding exactly the packages of S.
DataWith(S) ==
    [avail |-> TRUE,
     tree |-> [k \in DirKeys |->
        {Dir(VersionToString(p.version)) : p \in {q \in S : <<q.namespace, q.name>> = k}}]]
NoData == [avail |-> FALSE, tree |-> EmptyTree]
NoCache == [avail |-> FALSE, dirs |-> [p \in Pkgs |-> "absent"]]

VARIABLES
    data,      \* dirs::data_dir() and what lies under <data_root>/typst/packages
    cache,     \* dirs::cache_dir() and the state of each package's cache path
    config,    \* the user configuration file
    reg,       \* PACKAGE_MIRRORS of each process: the Lazy cell
    parsed,    \* what each process's construction parsed from the file
    initRuns,  \* how often each process ran the construction closure
    procOf,    \* the process each thread belongs to (NoProc: no such thread)
    budget,    \* calls a thread may still make (-1: any number)
    pc, op, arg, ret, url, archive, idx, result,
    dl,        \* what download_package returned
    resp,      \* the answer to the last GET
    gets,      \* archive GETs issued by the current call
    touched,    \* the current call read, created or removed its cache path
    call       \* a direct call of PkgMirror::package_download_url: arguments, result

vars == <<data, cache, config, reg, parsed, initRuns, procOf, budget, call,
          pc, op, arg, ret, url, archive, idx, result, dl, resp, gets, touched>>
fsVars == <<data, cache, config>>
regVars == <<reg, parsed, initRuns>>

Res(tag, root, pkg, msg) ==
    [tag |-> tag, root |-> root, pkg |-> pkg, msg |-> msg, ver |-> <<>>]
NoResult == Res("-", "-", NoPkg, "-")
Panic(why) == Res("panic", "-", NoPkg, why)

Uninit == [st |-> "uninit", owner |-> 0, val |-> EmptyMap]

\* format!("typst/packages/{}/{}/{}") joined to data_dir, and exists().
DataExists(spec) ==
    /\ data.avail
    /\ \E e \in data.tree[<<spec.namespace, spec.name>>] :
          e.name = VersionToString(spec.version)
CacheExists(spec) == cache.dirs[spec] # "absent"

Live(t) == procOf[t] # NoProc

\* ------------------------------------------------------- PACKAGE_MIRRORS

AccessPoints == {"l120", "l171"}

\* Mutant of LazyForce: no once-only guard, an access that finds the closure
\* still running starts it again.
LazyForce_racy(t) ==
    /\ Live(t) /\ pc[t] \in AccessPoints
    /\ reg[procOf[t]].st \in {"uninit", "running", "poisoned"}
    /\ reg[procOf[t]].owner # t
    /\ IF reg[procOf[t]].st # "poisoned"
       THEN /\ reg' = [reg EXCEPT ![procOf[t]] =
                          [st |-> "running", owner |-> t, val |-> EmptyMap]]
            /\ initRuns' = [initRuns EXCEPT ![procOf[t]] = @ + 1]
            /\ UNCHANGED <<pc, result>>
       ELSE /\ pc' = [pc EXCEPT ![t] = "panicked"]
            /\ result' = [result EXCEPT ![t] = Panic("poisoned")]
            /\ UNCHANGED <<reg, initRuns>>
    /\ UNCHANGED <<fsVars, parsed, procOf, call, budget, op, arg, ret, url, archive,
                   idx, dl, resp, gets, touched>>

\* Lazy::force on a cell that is not ready: the first access claims the cell
\* and starts the closure; an access after the closure panicked panics.
LazyForce(t) ==
    /\ Live(t) /\ pc[t] \in AccessPoints
    /\ reg[procOf[t]].st \in {"uninit", "poisoned"}
    /\ IF reg[procOf[t]].st = "uninit"
       THEN /\ reg' = [reg EXCEPT ![procOf[t]] =
                          [st |-> "running", owner |-> t, val |-> EmptyMap]]
            /\ initRuns' = [initRuns EXCEPT ![procOf[t]] = @ + 1]
            /\ UNCHANGED <<pc, result>>
       ELSE /\ pc' = [pc EXCEPT ![t] = "panicked"]
            /\ result' = [result EXCEPT ![t] = Panic("poisoned")]
            /\ UNCHANGED <<reg, initRuns>>
    /\ UNCHANGED <<fsVars, parsed, procOf, call, budget, op, arg, ret, url, archive,
                   idx, dl, resp, gets, touched>>

\* lines 56-101, the value the closure builds from what it parsed.
Mirrors(cfg, p) ==
    IF cfg.kind = "file" /\ p.ok
    THEN InsertAll(DefaultMirrors, p.map)
    ELSE DefaultMirrors

\* The closure of PACKAGE_MIRRORS (lines 52-102). println! (line 59) panics
\* when stdout cannot be written; the panic leaves the cell poisoned.
LazyEnd(t) ==
    /\ Live(t)
    /\ reg[procOf[t]].st = "running" /\ reg[procOf[t]].owner = t
    /\ \E stdoutOk \in BOOLEAN, readOk \in BOOLEAN, clean \in BOOLEAN,
          cut \in 0..Len(config.entries) :
        LET p == IF config.kind = "file"
                 THEN ReadAndParse(config, readOk, cut, clean)
                 ELSE ParseErr
        IN  IF config.kind # "nodir" /\ ~stdoutOk
            THEN /\ reg' = [reg EXCEPT ![procOf[t]] =
                               [st |-> "poisoned", owner |-> 0, val |-> EmptyMap]]
                 /\ pc' = [pc EXCEPT ![t] = "panicked"]
                 /\ result' = [result EXCEPT ![t] = Panic("println")]
                 /\ UNCHANGED parsed
            ELSE /\ reg' = [reg EXCEPT ![procOf[t]] =
                               [st |-> "ready", owner |-> 0, val |-> Mirrors(config, p)]]
                 /\ parsed' = [parsed EXCEPT ![procOf[t]] = p]
                 /\ UNCHANGED <<pc, result>>
    /\ UNCHANGED <<fsVars, initRuns, procOf, call, budget, op, arg, ret, url, archive,
                   idx, dl, resp, gets, touched>>

\* The registry as an access at an access point sees it.
PACKAGE_MIRRORS(t) == reg[procOf[t]].val
Forced(t) == reg[procOf[t]].st = "ready"

\* -------------------------------------------------------- prepare_package

\* A caller enters prepare_package(spec).
prepare_package(t, spec) ==
    /\ Live(t) /\ pc[t] \in {"idle", "done"} /\ budget[t] # 0
    /\ budget' = [budget EXCEPT ![t] = IF @ < 0 THEN @ ELSE @ - 1]
    /\ pc' = [pc EXCEPT ![t] = "l109"]
    /\ op' = [op EXCEPT ![t] = "prepare_package"]
    /\ arg' = [arg EXCEPT ![t] = spec]
    /\ ret' = [ret EXCEPT ![t] = "-"]
    /\ url' = [url EXCEPT ![t] = <<>>]
    /\ archive' = [archive EXCEPT ![t] = "-"]
    /\ result' = [result EXCEPT ![t] = NoResult]
    /\ dl' = [dl EXCEPT ![t] = "-"]
    /\ resp' = [resp EXCEPT ![t] = "-"]
    /\ gets' = [gets EXCEPT ![t] = 0]
    /\ touched' = [touched EXCEPT ![t] = FALSE]
    /\ UNCHANGED <<fsVars, regVars, procOf, call, idx>>

\* Mutant of data_check: an existing cache path is preferred to the data path.
data_check_cacheFirst(t) ==
    /\ Live(t) /\ pc[t] = "l109"
    /\ IF DataExists(arg[t]) /\ ~(cache.avail /\ CacheExists(arg[t]))
       THEN /\ pc' = [pc EXCEPT ![t] = "done"]
            /\ result' = [result EXCEPT ![t] = Res("Ok", "data", arg[t], "-")]
       ELSE IF ~cache.avail
       THEN /\ pc' = [pc EXCEPT ![t] = "done"]
            /\ result' = [result EXCEPT ![t] = Res("NotFound", "-", arg[t], "-")]
       ELSE /\ pc' = [pc EXCEPT ![t] = "l120"]
            /\ UNCHANGED result
    /\ UNCHANGED <<fsVars, regVars, procOf, call, budget, op, arg, ret, url, archive,
                   idx, dl, resp, gets, touched>>

\* lines 106-118: the data path wins; without a cache root nothing is found.
data_check(t) ==
    /\ Live(t) /\ pc[t] = "l109"
    /\ IF DataExists(arg[t])
       THEN /\ pc' = [pc EXCEPT ![t] = "done"]
            /\ result' = [result EXCEPT ![t] = Res("Ok", "data", arg[t], "-")]
       ELSE IF ~cache.avail
       THEN /\ pc' = [pc EXCEPT ![t] = "done"]
            /\ result' = [result EXCEPT ![t] = Res("NotFound", "-", arg[t], "-")]
       ELSE /\ pc' = [pc EXCEPT ![t] = "l120"]
            /\ UNCHANGED result
    /\ UNCHANGED <<fsVars, regVars, procOf, call, budget, op, arg, ret, url, archive,
                   idx, dl, resp, gets, touched>>

\* Mutant of mirror_check: a registered namespace is fetched whether or not
\* the cache path exists.
mirror_check_noExists(t) ==
    /\ Live(t) /\ pc[t] = "l120" /\ Forced(t)
    /\ LET known == arg[t].namespace \in DOMAIN PACKAGE_MIRRORS(t)
       IN  /\ touched' = [touched EXCEPT ![t] = @ \/ known]
           /\ IF known
              THEN /\ pc' = [pc EXCEPT ![t] = "l171"]
                   /\ ret' = [ret EXCEPT ![t] = "l124"]
              ELSE /\ pc' = [pc EXCEPT ![t] = "l124"]
                   /\ UNCHANGED ret
    /\ UNCHANGED <<fsVars, regVars, procOf, call, budget, op, arg, url, archive,
                   idx, result, dl, resp, gets>>

\* Mutant of mirror_check: the registry-guarded fetch is left out.
mirror_check_skip(t) ==
    /\ Live(t) /\ pc[t] = "l120" /\ Forced(t)
    /\ touched' = [touched EXCEPT ![t] = @ \/ arg[t].namespace \in DOMAIN PACKAGE_MIRRORS(t)]
    /\ pc' = [pc EXCEPT ![t] = "l124"]
    /\ UNCHANGED <<fsVars, regVars, procOf, call, budget, op, arg, ret, url, archive,
                   idx, result, dl, resp, gets>>

\* Mutant of mirror_check: the fetch is started for any absent cache path.
mirror_check_anyNamespace(t) ==
    /\ Live(t) /\ pc[t] = "l120" /\ Forced(t)
    /\ touched' = [touched EXCEPT ![t] = TRUE]
    /\ IF ~CacheExists(arg[t])
       THEN /\ pc' = [pc EXCEPT ![t] = "l171"]
            /\ ret' = [ret EXCEPT ![t] = "l124"]
       ELSE /\ pc' = [pc EXCEPT ![t] = "l124"]
            /\ UNCHANGED ret
    /\ UNCHANGED <<fsVars, regVars, procOf, call, budget, op, arg, url, archive,
                   idx, result, dl, resp, gets>>

\* line 120: contains_key(namespace) && !dir.exists(); exists() runs only when
\* the namespace is registered.
mirror_check(t) ==
    /\ Live(t) /\ pc[t] = "l120" /\ Forced(t)
    /\ LET known == arg[t].namespace \in DOMAIN PACKAGE_MIRRORS(t)
       IN  /\ touched' = [touched EXCEPT ![t] = @ \/ known]
           /\ IF known /\ ~CacheExists(arg[t])
              THEN /\ pc' = [pc EXCEPT ![t] = "l171"]
                   /\ ret' = [ret EXCEPT ![t] = "l124"]
              ELSE /\ pc' = [pc EXCEPT ![t] = "l124"]
                   /\ UNCHANGED ret
    /\ UNCHANGED <<fsVars, regVars, procOf, call, budget, op, arg, url, archive,
                   idx, result, dl, resp, gets>>

\* Mutant of cache_check: the second fetch is tried for every namespace.
cache_check_anyNamespace(t) ==
    /\ Live(t) /\ pc[t] \in {"l124", "l131"}
    /\ touched' = [touched EXCEPT ![t] = TRUE]
    /\ IF CacheExists(arg[t])
       THEN /\ pc' = [pc EXCEPT ![t] = "done"]
            /\ result' = [result EXCEPT ![t] = Res("Ok", "cache", arg[t], "-")]
            /\ UNCHANGED ret
       ELSE IF pc[t] = "l124"
       THEN /\ pc' = [pc EXCEPT ![t] = "l171"]
            /\ ret' = [ret EXCEPT ![t] = "l131"]
            /\ UNCHANGED result
       ELSE /\ pc' = [pc EXCEPT ![t] = "done"]
            /\ result' = [result EXCEPT ![t] = Res("NotFound", "-", arg[t], "-")]
            /\ UNCHANGED ret
    /\ UNCHANGED <<fsVars, regVars, procOf, call, budget, op, arg, url, archive,
                   idx, dl, resp, gets>>

\* lines 124-137: the cache path is returned when it exists; otherwise
\* preview is fetched (again), and anything else is not found.
cache_check(t) ==
    /\ Live(t) /\ pc[t] \in {"l124", "l131"}
    /\ touched' = [touched EXCEPT ![t] = TRUE]
    /\ IF CacheExists(arg[t])
       THEN /\ pc' = [pc EXCEPT ![t] = "done"]
            /\ result' = [result EXCEPT ![t] = Res("Ok", "cache", arg[t], "-")]
            /\ UNCHANGED ret
       ELSE IF pc[t] = "l124" /\ arg[t].namespace = "preview"
       THEN /\ pc' = [pc EXCEPT ![t] = "l171"]
            /\ ret' = [ret EXCEPT ![t] = "l131"]
            /\ UNCHANGED result
       ELSE /\ pc' = [pc EXCEPT ![t] = "done"]
            /\ result' = [result EXCEPT ![t] = Res("NotFound", "-", arg[t], "-")]
            /\ UNCHANGED ret
    /\ UNCHANGED <<fsVars, regVars, procOf, call, budget, op, arg, url, archive,
                   idx, dl, resp, gets>>

\* ------------------------------------------------------- download_package

\* Mutant of Fail: the error is dropped and the caller goes on after the call.
Fail_fallThrough(t, tag, msg) ==
    /\ pc' = [pc EXCEPT ![t] = ret[t]]
    /\ dl' = [dl EXCEPT ![t] = tag]
    /\ UNCHANGED result

\* download_package returns Err: the `?` of its caller returns it at once.
Fail(t, tag, msg) ==
    /\ pc' = [pc EXCEPT ![t] = "done"]
    /\ dl' = [dl EXCEPT ![t] = tag]
    /\ result' = [result EXCEPT ![t] = Res(tag, "-", IF tag = "NotFound" THEN arg[t] ELSE NoPkg, msg)]

\* lines 171-181: the assertion, the URL and the status line, whose io::Result
\* is unwrapped.
download_enter(t) ==
    /\ Live(t) /\ pc[t] = "l171" /\ Forced(t)
    /\ IF arg[t].namespace \notin DOMAIN PACKAGE_MIRRORS(t)
       THEN /\ pc' = [pc EXCEPT ![t] = "panicked"]
            /\ result' = [result EXCEPT ![t] = Panic("assert")]
            /\ UNCHANGED url
       ELSE /\ url' = [url EXCEPT ![t] =
                 package_download_url(PACKAGE_MIRRORS(t)[arg[t].namespace],
                                      arg[t].name, VersionToString(arg[t].version))]
            /\ \E printed \in BOOLEAN :
                 IF printed
                 THEN /\ pc' = [pc EXCEPT ![t] = "l183"]
                      /\ UNCHANGED result
                 ELSE /\ pc' = [pc EXCEPT ![t] = "panicked"]
                      /\ result' = [result EXCEPT ![t] = Panic("print_downloading")]
    /\ UNCHANGED <<fsVars, regVars, procOf, call, budget, op, arg, ret, archive,
                   idx, dl, resp, gets, touched>>

\* What download_with_progress can answer.
Responses == {"good", "corrupt", "404", "timeout", "status 500"}

\* Mutant of download_get: the 404 arm is missing.
download_get_no404(t) ==
    /\ Live(t) /\ pc[t] = "l183"
    /\ gets' = [gets EXCEPT ![t] = @ + 1]
    /\ \E r \in Responses :
        /\ resp' = [resp EXCEPT ![t] = r]
        /\ IF r \in {"good", "corrupt"}
           THEN /\ archive' = [archive EXCEPT ![t] = r]
                /\ pc' = [pc EXCEPT ![t] = "l191"]
                /\ UNCHANGED <<dl, result>>
           ELSE /\ Fail(t, "NetworkFailed", r)
                /\ UNCHANGED archive
    /\ UNCHANGED <<fsVars, regVars, procOf, call, budget, op, arg, ret, url, idx, touched>>

\* lines 183-189
download_get(t) ==
    /\ Live(t) /\ pc[t] = "l183"
    /\ gets' = [gets EXCEPT ![t] = @ + 1]
    /\ \E r \in Responses :
        /\ resp' = [resp EXCEPT ![t] = r]
        /\ IF r \in {"good", "corrupt"}
           THEN /\ archive' = [archive EXCEPT ![t] = r]
                /\ pc' = [pc EXCEPT ![t] = "l191"]
                /\ UNCHANGED <<dl, result>>
           ELSE /\ IF r = "404"
                   THEN Fail(t, "NotFound", "-")
                   ELSE Fail(t, "NetworkFailed", r)
                /\ UNCHANGED archive
    /\ UNCHANGED <<fsVars, regVars, procOf, call, budget, op, arg, ret, url, idx, touched>>

\* Mutant of RemoveDirAll: the directory of the namespace is removed.
RemoveDirAll_namespace(dirs, spec, removed) ==
    IF removed
    THEN [p \in DOMAIN dirs |-> IF p.namespace = spec.namespace THEN "absent" ELSE dirs[p]]
    ELSE dirs

\* line 193: fs::remove_dir_all(package_dir).ok()
RemoveDirAll(dirs, spec, removed) ==
    IF removed THEN [dirs EXCEPT ![spec] = "absent"] ELSE dirs

\* Mutant of unpack_begin: the unpack waits while another call unpacks the
\* same spec.
unpack_begin_locked(t) ==
    /\ Live(t) /\ pc[t] = "l191"
    /\ \A u \in Threads \ {t} : ~(pc[u] = "l192" /\ arg[u] = arg[t])
    /\ touched' = [touched EXCEPT ![t] = TRUE]
    /\ \E created \in BOOLEAN, removed \in BOOLEAN :
        IF created
        THEN /\ cache' = [cache EXCEPT !.dirs[arg[t]] = "partial"]
             /\ pc' = [pc EXCEPT ![t] = "l192"]
             /\ UNCHANGED <<dl, result>>
        ELSE /\ cache' = [cache EXCEPT !.dirs = RemoveDirAll(@, arg[t], removed)]
             /\ Fail(t, "MalformedArchive", "unpack")
    /\ UNCHANGED <<data, config, regVars, procOf, call, budget, op, arg, ret, url,
                   archive, idx, resp, gets>>

\* lines 191-192: unpack creates the directory, or fails before it could.
unpack_begin(t) ==
    /\ Live(t) /\ pc[t] = "l191"
    /\ touched' = [touched EXCEPT ![t] = TRUE]
    /\ \E created \in BOOLEAN, removed \in BOOLEAN :
        IF created
        THEN /\ cache' = [cache EXCEPT !.dirs[arg[t]] = "partial"]
             /\ pc' = [pc EXCEPT ![t] = "l192"]
             /\ UNCHANGED <<dl, result>>
        ELSE /\ cache' = [cache EXCEPT !.dirs = RemoveDirAll(@, arg[t], removed)]
             /\ Fail(t, "MalformedArchive", "unpack")
    /\ UNCHANGED <<data, config, regVars, procOf, call, budget, op, arg, ret, url,
                   archive, idx, resp, gets>>

\* lines 192-195: the entries are written; an error removes the directory,
\* as far as remove_dir_all manages to.
unpack_end(t) ==
    /\ Live(t) /\ pc[t] = "l192"
    /\ \E unpacked \in BOOLEAN, removed \in BOOLEAN :
        IF unpacked /\ archive[t] = "good"
        THEN /\ cache' = [cache EXCEPT !.dirs[arg[t]] = "complete"]
             /\ dl' = [dl EXCEPT ![t] = "Ok"]
             /\ pc' = [pc EXCEPT ![t] = ret[t]]
             /\ UNCHANGED result
        ELSE /\ cache' = [cache EXCEPT !.dirs = RemoveDirAll(@, arg[t], removed)]
             /\ Fail(t, "MalformedArchive", "unpack")
    /\ UNCHANGED <<data, config, regVars, procOf, call, budget, op, arg, ret, url,
                   archive, idx, resp, gets, touched>>

\* ------------------------------------------------------------ specification

NoIdx == [kind |-> "-", entries |-> <<>>]
NoCall == [st |-> "-", path |-> <<>>, pkg_name |-> <<>>, pkg_version |-> <<>>, out |-> <<>>]

ThreadInit ==
    /\ pc = [t \in Threads |-> "idle"]
    /\ op = [t \in Threads |-> "-"]
    /\ arg = [t \in Threads |-> NoPkg]
    /\ ret = [t \in Threads |-> "-"]
    /\ url = [t \in Threads |-> <<>>]
    /\ archive = [t \in Threads |-> "-"]
    /\ idx = [t \in Threads |-> NoIdx]
    /\ result = [t \in Threads |-> NoResult]
    /\ dl = [t \in Threads |-> "-"]
    /\ resp = [t \in Threads |-> "-"]
    /\ gets = [t \in Threads |-> 0]
    /\ touched = [t \in Threads |-> FALSE]

RegInit ==
    /\ reg = [p \in Procs |-> Uninit]
    /\ parsed = [p \in Procs |-> ParseErr]
    /\ initRuns = [p \in Procs |-> 0]

\* One process, one thread, any number of calls one after the other, over any
\* data root, any cache of completely unpacked packages and any configuration.
Init ==
    /\ data \in {NoData} \cup {DataWith(S) : S \in SUBSET Pkgs}
    /\ cache \in {NoCache} \cup
          {[avail |-> TRUE, dirs |-> d] : d \in [Pkgs -> {"absent", "complete"}]}
    /\ config \in Configs
    /\ procOf = [t \in Threads |-> IF t = 1 THEN "p1" ELSE NoProc]
    /\ budget = [t \in Threads |-> IF t = 1 THEN -1 ELSE 0]
    /\ RegInit
    /\ ThreadInit
    /\ call = NoCall

Step(t) ==
    \/ \E spec \in Pkgs : prepare_package(t, spec)
    \/ data_check(t)
    \/ LazyForce(t)
    \/ LazyEnd(t)
    \/ mirror_check(t)
    \/ cache_check(t)
    \/ download_enter(t)
    \/ download_get(t)
    \/ unpack_begin(t)
    \/ unpack_end(t)

Next == \E t \in Threads : Step(t)

Spec == Init /\ [][Next]_vars

\* What the user leaves at the configuration path while the process runs: no
\* file, or a well-formed file with one table.
EditedConfigs ==
    {NoFile("absent")} \cup
    {[kind |-> "file", entries |-> <<ns>>, wellFormed |-> TRUE] : ns \in Namespaces}

\* The user removes or rewrites the configuration file.
ConfigChange ==
    /\ config.kind # "nodir"
    /\ config' \in EditedConfigs \ {config}
    /\ UNCHANGED <<data, cache, regVars, procOf, call, budget, pc, op, arg, ret, url,
                   archive, idx, result, dl, resp, gets, touched>>

\* One process with two threads, each making MaxThreadCalls calls over an empty
\* cache, while the configuration file changes under them.
InitThreads ==
    /\ data = NoData
    /\ cache = [avail |-> TRUE, dirs |-> [p \in Pkgs |-> "absent"]]
    /\ config \in EditedConfigs
    /\ procOf = [t \in Threads |-> "p1"]
    /\ budget = [t \in Threads |-> MaxThreadCalls]
    /\ RegInit
    /\ ThreadInit
    /\ call = NoCall

NextThreads == Next \/ ConfigChange

SpecThreads == InitThreads /\ [][NextThreads]_vars

\* The kinds of configuration: no file, a file that cannot be opened, a file
\* that does not parse, a file that adds a namespace, a file that overrides
\* preview.
ProcConfigs ==
    {NoFile("absent"), NoFile("unopenable"),
     [kind |-> "file", entries |-> <<"local">>, wellFormed |-> FALSE],
     [kind |-> "file", entries |-> <<"local">>, wellFormed |-> TRUE],
     [kind |-> "file", entries |-> <<"preview">>, wellFormed |-> TRUE]}

\* Two processes, one thread each, making MaxProcCalls calls between them (the
\* first process at least as many as the second) over the same empty cache and
\* the same configuration; every process has its own registry.
InitProcs ==
    /\ data = NoData
    /\ cache = [avail |-> TRUE, dirs |-> [p \in Pkgs |-> "absent"]]
    /\ config \in ProcConfigs
    /\ procOf = [t \in Threads |-> IF t = 1 THEN "p1" ELSE "p2"]
    /\ budget \in {b \in [Threads -> 0..MaxProcCalls] : b[1] + b[2] = MaxProcCalls /\ b[1] >= b[2]}
    /\ RegInit
    /\ ThreadInit
    /\ call = NoCall

SpecProcs == InitProcs /\ [][Next]_vars

\* ------------------------------------------------- package_download_url alone

\* Path templates: up to MaxPieces pieces, among them the two placeholders,
\* the beginning and the end of a placeholder, and a lone "$".
Pieces == {NAME, VERSION, <<"$", "v", "e">>, <<"o", "n">>, <<"-">>, <<"$">>}

RECURSIVE Templates(_)
Templates(n) ==
    IF n = 0 THEN {<<>>}
    ELSE Templates(n - 1) \cup {tpl \o piece : tpl \in Templates(n - 1), piece \in Pieces}

\* Package names, one of them the text of a placeholder, and version strings.
UrlNames == {<<"a">>, <<"r", "s", "i">>, VERSION}
UrlVersions == {VersionToString(v) : v \in Versions}

\* A PkgMirror with any template, about to be asked for the URL of any
\* package name and version.
InitUrl ==
    /\ data = NoData
    /\ cache = NoCache
    /\ config = NoFile("nodir")
    /\ procOf = [t \in Threads |-> NoProc]
    /\ budget = [t \in Threads |-> 0]
    /\ RegInit
    /\ ThreadInit
    /\ call \in {[st |-> "args", path |-> tpl, pkg_name |-> n, pkg_version |-> v, out |-> <<>>] :
                    tpl \in Templates(MaxPieces), n \in UrlNames, v \in UrlVersions}

\* lines 31-33, called directly.
url_call ==
    /\ call.st = "args"
    /\ call' = [call EXCEPT !.st = "ret",
                            !.out = package_download_url(call.path, call.pkg_name, call.pkg_version)]
    /\ UNCHANGED <<data, cache, config, regVars, procOf, budget, pc, op, arg, ret,
                   url, archive, idx, result, dl, resp, gets, touched>>

NextUrl == url_call

SpecUrl == InitUrl /\ [][NextUrl]_vars

\* ----------------------------------------------- determine_latest_version

Version(v) == [tag |-> "Ok", root |-> "-", pkg |-> NoPkg, msg |-> "-", ver |-> v]
Err(msg) == Res("Err", "-", NoPkg, msg)

PackageInfos == [name : PkgNames, version : Versions]

RECURSIVE SeqsUpTo(_, _)
SeqsUpTo(S, n) ==
    IF n = 0 THEN {<<>>}
    ELSE LET shorter == SeqsUpTo(S, n - 1)
         IN  shorter \cup {Append(q, x) : q \in shorter, x \in S}

\* What the GET of <HOST>/preview/index.json can answer: an index, a body that
\* is no index, 404 or a transport error.
IndexResponses ==
    {[kind |-> "ok", entries |-> e] : e \in SeqsUpTo(PackageInfos, MaxIndex)}
    \cup {[kind |-> k, entries |-> <<>>] : k \in {"parse", "404", "timeout"}}

\* download_index (lines 199-210): the index, or the message it fails with.
download_index(r) ==
    IF r.kind = "ok" THEN [ok |-> TRUE, index |-> r.entries, msg |-> "-"]
    ELSE [ok |-> FALSE, index |-> <<>>,
          msg |-> IF r.kind = "parse" THEN "failed to parse package index"
                  ELSE IF r.kind = "404" THEN "failed to fetch package index (not found)"
                  ELSE "failed to fetch package index (timeout)"]

\* Iterator::max over a sequence: None (<<>>) when it is empty, else the last
\* of its greatest elements.
RECURSIVE IterMax(_, _)
IterMax(s, acc) ==
    IF Len(s) = 0 THEN acc
    ELSE IterMax(Tail(s),
                 IF Len(acc) = 0 \/ VersionLeq(acc[1], Head(s)) THEN <<Head(s)>> ELSE acc)

\* Mutant of LatestInIndex: the filter on the package name is missing.
LatestInIndex_noFilter(index, name) ==
    IterMax([k \in 1..Len(index) |-> index[k].version], <<>>)

\* lines 148-151: filter by name, map to the version, max.
LatestInIndex(index, name) ==
    LET Named(package) == package.name = name
        found == SelectSeq(index, Named)
    IN  IterMax([k \in 1..Len(found) |-> found[k].version], <<>>)

\* lines 157-165: the names of the entries of <data_dir>/typst/packages/<ns>/
\* <name> that parse as versions, and their maximum (<<>>: none).
LatestLocal(spec) ==
    LET entries == IF data.avail THEN data.tree[<<spec.namespace, spec.name>>] ELSE {}
        versions == {VersionFromStr(e.name) : e \in {f \in entries : VersionParses(f.name)}}
    IN  IF versions = {} THEN <<>>
        ELSE <<CHOOSE v \in versions : \A w \in versions : VersionLeq(w, v)>>

\* A caller enters determine_latest_version(spec).
determine_latest_version(t, spec) ==
    /\ Live(t) /\ pc[t] \in {"idle", "done"} /\ budget[t] # 0
    /\ budget' = [budget EXCEPT ![t] = IF @ < 0 THEN @ ELSE @ - 1]
    /\ pc' = [pc EXCEPT ![t] = "l144"]
    /\ op' = [op EXCEPT ![t] = "determine_latest_version"]
    /\ arg' = [arg EXCEPT ![t] =
                  [namespace |-> spec[1], name |-> spec[2], version |-> <<>>]]
    /\ idx' = [idx EXCEPT ![t] = NoIdx]
    /\ result' = [result EXCEPT ![t] = NoResult]
    /\ gets' = [gets EXCEPT ![t] = 0]
    /\ touched' = [touched EXCEPT ![t] = FALSE]
    /\ UNCHANGED <<fsVars, regVars, procOf, call, ret, url, archive, dl, resp>>

\* lines 144-167: the index for preview, the data root for any other namespace.
latest_search(t) ==
    /\ Live(t) /\ pc[t] = "l144"
    /\ pc' = [pc EXCEPT ![t] = "done"]
    /\ IF arg[t].namespace = "preview"
       THEN \E r \in IndexResponses :
              LET fetched == download_index(r)
                  latest == LatestInIndex(fetched.index, arg[t].name)
              IN  /\ idx' = [idx EXCEPT ![t] = r]
                  /\ result' = [result EXCEPT ![t] =
                        IF ~fetched.ok THEN Err(fetched.msg)
                        ELSE IF latest = <<>> THEN Err("failed to find package")
                        ELSE Version(latest[1])]
       ELSE LET latest == LatestLocal(arg[t])
            IN  /\ result' = [result EXCEPT ![t] =
                      IF latest = <<>> THEN Err("please specify the desired version")
                      ELSE Version(latest[1])]
                /\ UNCHANGED idx
    /\ UNCHANGED <<fsVars, regVars, procOf, call, budget, op, arg, ret, url, archive,
                   dl, resp, gets, touched>>

\* Names found in a package directory of the data root: versions, and names
\* that are none.
EntryNames ==
    {VersionToString(v) : v \in Versions}
    \cup {<<"l", "a", "t", "e", "s", "t">>, <<"1", ".", "0">>}
Entries == [name : EntryNames, kind : {"dir", "file"}]

\* Directory listings of at most n entries, no two of one name.
RECURSIVE Listings(_)
Listings(n) ==
    IF n = 0 THEN {{}}
    ELSE LET smaller == Listings(n - 1)
             Fresh(l) == {f \in Entries : \A g \in l : g.name # f.name}
         IN  smaller \cup UNION {{l \cup {e} : e \in Fresh(l)} : l \in smaller}

\* One process, one thread, any number of calls: the data root holds one
\* package directory with at most MaxEntries entries, the cache root holds all
\* packages or none.
InitLatest ==
    /\ data \in {NoData} \cup
          {[avail |-> TRUE, tree |-> [EmptyTree EXCEPT ![k] = l]] :
              k \in DirKeys, l \in Listings(MaxEntries)}
    /\ cache \in {[avail |-> TRUE, dirs |-> [p \in Pkgs |-> c]] : c \in {"absent", "complete"}}
    /\ config = NoFile("absent")
    /\ procOf = [t \in Threads |-> IF t = 1 THEN "p1" ELSE NoProc]
    /\ budget = [t \in Threads |-> IF t = 1 THEN -1 ELSE 0]
    /\ RegInit
    /\ ThreadInit
    /\ call = NoCall

NextLatest ==
    \E t \in Threads :
        \/ \E spec \in DirKeys : determine_latest_version(t, spec)
        \/ latest_search(t)

SpecLatest == InitLatest /\ [][NextLatest]_vars

\* ------------------------------------------------------------------ claims

Preparing(t) == op[t] = "prepare_package" /\ pc[t] # "idle"
Fetching == {"l171", "l183", "l191", "l192", "l131"}

\* C1: when the persistent-data path of the spec exists, prepare_package
\* returns Ok(that path), issues no archive GET and neither reads, creates nor
\* removes the cache path, whatever lies at the cache path and whatever the
\* registry holds.
C1_DataRootWins ==
    \A t \in Threads :
        (Preparing(t) /\ DataExists(arg[t])) =>
            /\ pc[t] \in {"l109", "done"}
            /\ gets[t] = 0
            /\ ~touched[t]
            /\ pc[t] = "done" => result[t] = Res("Ok", "data", arg[t], "-")

C1_Witness ==
    \E t \in Threads :
        /\ Preparing(t) /\ pc[t] = "done"
        /\ DataExists(arg[t]) /\ cache.avail /\ CacheExists(arg[t])
        /\ result[t].root = "data"

\* The namespace is neither in the built-in registry nor in the user's file.
Unmentioned(ns) ==
    /\ ns \notin DOMAIN DefaultMirrors
    /\ \A k \in 1..Len(config.entries) : config.entries[k] # ns

\* C2 as stated: for a namespace in neither the default registry nor a user
\* override, prepare_package returns NotFound(spec) and performs no network call.
C2_Original ==
    \A t \in Threads :
        (Preparing(t) /\ pc[t] = "done" /\ Unmentioned(arg[t].namespace)) =>
            /\ result[t] = Res("NotFound", "-", arg[t], "-")
            /\ gets[t] = 0

\* C2 as amended: for such a namespace prepare_package never starts an archive
\* fetch, and what it returns is the data path when that exists, else the
\* cache path when that exists, and NotFound(spec) only when neither does.
C2_UnregisteredNoFetch ==
    \A t \in Threads :
        (Preparing(t) /\ Unmentioned(arg[t].namespace)) =>
            /\ gets[t] = 0
            /\ pc[t] \notin Fetching
            /\ pc[t] = "done" =>
                 result[t] =
                    IF DataExists(arg[t]) THEN Res("Ok", "data", arg[t], "-")
                    ELSE IF cache.avail /\ CacheExists(arg[t])
                    THEN Res("Ok", "cache", arg[t], "-")
                    ELSE Res("NotFound", "-", arg[t], "-")

C2_Witness ==
    \E t \in Threads :
        /\ Preparing(t) /\ pc[t] = "done" /\ Unmentioned(arg[t].namespace)
        /\ Forced(t) /\ cache.avail
        /\ result[t].tag = "NotFound"

\* C3: one fetch and unpack into an absent cache path: when the unpack succeeds
\* the cache path exists and download_package returns Ok; when it fails the
\* cache path is absent afterwards and download_package returns
\* MalformedArchive.
C3_UnpackAllOrNothing ==
    \A t \in Threads :
        (Preparing(t) /\ gets[t] = 1 /\ resp[t] \in {"good", "corrupt"}
            /\ pc[t] \in {"l124", "done"}) =>
            /\ dl[t] \in {"Ok", "MalformedArchive"}
            /\ dl[t] = "Ok" => cache.dirs[arg[t]] = "complete"
            /\ dl[t] = "MalformedArchive" => cache.dirs[arg[t]] = "absent"

\* C4: every cache path that prepare_package returns as Ok holds a completed
\* unpack, after any sequence of calls, failed unpacks and failed removals
\* included.
C4_NoPartialCacheHit ==
    \A t \in Threads :
        (Preparing(t) /\ pc[t] = "done" /\ result[t].tag = "Ok"
            /\ result[t].root = "cache") =>
            cache.dirs[arg[t]] = "complete"

\* C5: a 404 answer to the archive GET yields NotFound(spec), any other
\* transport error NetworkFailed with its message; either way nothing is
\* unpacked and the cache path stays absent.
C5_TransportErrors ==
    \A t \in Threads :
        (Preparing(t) /\ resp[t] \in {"404", "timeout", "status 500"}) =>
            /\ pc[t] = "done"
            /\ archive[t] = "-"
            /\ cache.dirs[arg[t]] = "absent"
            /\ resp[t] = "404" =>
                 /\ dl[t] = "NotFound"
                 /\ result[t] = Res("NotFound", "-", arg[t], "-")
            /\ resp[t] # "404" =>
                 /\ dl[t] = "NetworkFailed"
                 /\ result[t] = Res("NetworkFailed", "-", NoPkg, resp[t])

C5_Witness ==
    \E t \in Threads :
        Preparing(t) /\ resp[t] = "404" /\ result[t].tag = "NotFound"

\* C6: an I/O failure of the "downloading <spec>" status line is ignored:
\* prepare_package never panics because of it.
C6_StatusLineIgnored ==
    \A t \in Threads :
        ~(pc[t] = "panicked" /\ result[t] = Panic("print_downloading"))

\* Both placeholders replaced in one pass over the template.
RECURSIVE SubstBoth(_, _, _, _)
SubstBoth(tpl, i, n, v) ==
    IF i > Len(tpl) THEN <<>>
    ELSE IF StartsWithAt(tpl, i, NAME) THEN n \o SubstBoth(tpl, i + Len(NAME), n, v)
    ELSE IF StartsWithAt(tpl, i, VERSION) THEN v \o SubstBoth(tpl, i + Len(VERSION), n, v)
    ELSE <<tpl[i]>> \o SubstBoth(tpl, i + 1, n, v)

\* The template C7 expects for a namespace: the user's when the configuration
\* parsed and holds the namespace, the built-in one otherwise.
ExpectedTemplate(p, ns) ==
    IF parsed[p].ok /\ ns \in DOMAIN parsed[p].map
    THEN UserTemplate(ns)
    ELSE DefaultMirrors[ns]

\* C7: the URL of an archive fetch is the template of the namespace with $name
\* and $version substituted, the template being the user's when the parsed
\* configuration holds the namespace and the built-in default otherwise.
C7_UrlFromTemplate ==
    \A t \in Threads :
        (Preparing(t) /\ (gets[t] > 0 \/ pc[t] = "l183")) =>
            url[t] = SubstBoth(ExpectedTemplate(procOf[t], arg[t].namespace), 1,
                               arg[t].name, VersionToString(arg[t].version))

C7_Witness ==
    \E t \in Threads :
        /\ Preparing(t) /\ gets[t] = 1 /\ arg[t].namespace = "preview"
        /\ parsed[procOf[t]].ok /\ "preview" \in DOMAIN parsed[procOf[t]].map
        /\ "local" \notin DOMAIN parsed[procOf[t]].map

\* C8: the registry of a process is built once: the construction closure runs
\* at most once however many threads make their first access together, and
\* once the registry is ready no access and no change of the configuration
\* file alters the value that prepare_package and download_package read.
C8_BuiltOnce ==
    [][\A p \in Procs :
          /\ initRuns'[p] <= 1
          /\ reg[p].st = "ready" => reg'[p] = reg[p]]_vars

\* Both threads have read the registry, which holds user entries of a file
\* that has since been removed.
C8_Witness ==
    /\ \A t \in Threads : Preparing(t) /\ pc[t] \notin {"l109", "l120", "panicked"}
    /\ initRuns["p1"] = 1
    /\ reg["p1"].st = "ready" /\ reg["p1"].val # DefaultMirrors
    /\ config.kind = "absent"

Latest(t) == op[t] = "determine_latest_version" /\ pc[t] = "done"

\* The versions the index lists under the queried name.
Matching(t) ==
    {idx[t].entries[k].version :
        k \in {j \in 1..Len(idx[t].entries) : idx[t].entries[j].name = arg[t].name}}

\* C9: for namespace preview determine_latest_version returns the greatest
\* version among the index entries of the queried name, whatever the entries
\* of other names, and fails when no entry has that name or when the index
\* could not be fetched or parsed.
C9_LatestFromIndex ==
    \A t \in Threads :
        (Latest(t) /\ arg[t].namespace = "preview") =>
            IF idx[t].kind # "ok" THEN
                /\ result[t].tag = "Err"
                /\ result[t].msg # "failed to find package"
            ELSE IF Matching(t) = {} THEN
                result[t] = Err("failed to find package")
            ELSE
                /\ result[t].tag = "Ok"
                /\ result[t].ver \in Matching(t)
                /\ \A w \in Matching(t) : VersionLeq(w, result[t].ver)

\* The index lists a greater version under another name than under the
\* queried one.
C9_Witness ==
    \E t \in Threads :
        /\ Latest(t) /\ arg[t].namespace = "preview" /\ idx[t].kind = "ok"
        /\ result[t].tag = "Ok"
        /\ \E k \in 1..Len(idx[t].entries) :
              /\ idx[t].entries[k].name # arg[t].name
              /\ ~VersionLeq(idx[t].entries[k].version, result[t].ver)

\* The versions named by the subdirectories of the queried package directory.
SubdirVersions(t) ==
    LET entries == IF data.avail THEN data.tree[<<arg[t].namespace, arg[t].name>>] ELSE {}
    IN  {VersionFromStr(e.name) :
            e \in {f \in entries : f.kind = "dir" /\ VersionParses(f.name)}}

\* C10: for any other namespace determine_latest_version asks no server and
\* returns the greatest version named by an immediate subdirectory of the
\* package directory under the data root, whatever the cache root holds; with
\* no such subdirectory it fails with "please specify the desired version".
C10_LatestFromSubdirs ==
    \A t \in Threads :
        (Latest(t) /\ arg[t].namespace # "preview") =>
            /\ idx[t] = NoIdx
            /\ IF SubdirVersions(t) = {}
               THEN result[t] = Err("please specify the desired version")
               ELSE /\ result[t].tag = "Ok"
                    /\ result[t].ver \in SubdirVersions(t)
                    /\ \A w \in SubdirVersions(t) : VersionLeq(w, result[t].ver)

\* C11: whatever a prepare_package call ends with, nothing under the data root
\* changes, and the only file system location that changes is the cache path
\* of the spec being prepared, while that call unpacks or rolls back: the
\* cache paths of other specs stay as they are.
C11_OnlyOwnCachePath ==
    [][/\ data' = data
       /\ config' = config
       /\ cache'.avail = cache.avail
       /\ \A p \in Pkgs :
            cache'.dirs[p] # cache.dirs[p] =>
                \E t \in Threads :
                    Preparing(t) /\ arg[t] = p /\ pc[t] \in {"l191", "l192"}]_vars

\* A failed unpack has been rolled back beside an installed package and
\* another package's cache directory.
C11_Witness ==
    \E t \in Threads :
        /\ Preparing(t) /\ pc[t] = "done" /\ dl[t] = "MalformedArchive"
        /\ cache.dirs[arg[t]] = "absent"
        /\ \E q \in Pkgs \ {arg[t]} :
              q.namespace = arg[t].namespace /\ cache.dirs[q] = "complete"
        /\ \E q \in Pkgs : DataExists(q)

\* What download_package's error looks like as prepare_package's result.
ErrorOf(t) ==
    IF dl[t] = "NotFound" THEN Res("NotFound", "-", arg[t], "-")
    ELSE IF dl[t] = "NetworkFailed" THEN Res("NetworkFailed", "-", NoPkg, resp[t])
    ELSE Res("MalformedArchive", "-", NoPkg, "unpack")

\* C12: when the fetch and unpack of step 2a fails, prepare_package returns
\* that very error at once: one GET, no entry into the preview branch, no
\* other error in its place.
C12_ErrorPropagates ==
    \A t \in Threads :
        (Preparing(t) /\ dl[t] \in {"NotFound", "NetworkFailed", "MalformedArchive"}) =>
            /\ pc[t] = "done"
            /\ gets[t] = 1
            /\ ret[t] = "l124"
            /\ result[t] = ErrorOf(t)

\* A preview fetch failed and left the cache path absent: falling through
\* would enter the preview branch.
C12_Witness ==
    \E t \in Threads :
        /\ Preparing(t) /\ pc[t] = "done" /\ dl[t] = "NetworkFailed"
        /\ arg[t].namespace = "preview" /\ cache.dirs[arg[t]] = "absent"

\* C13: the assertion of download_package (line 174) never fails, on the
\* registry-guarded call and on the call of the preview branch alike, for
\* every configuration: the registry always has the key preview, and
\* download_package is entered only for a namespace the registry has.
C13_AssertionHolds ==
    /\ \A p \in Procs : reg[p].st = "ready" => "preview" \in DOMAIN reg[p].val
    /\ \A t \in Threads :
          Preparing(t) =>
              /\ result[t] # Panic("assert")
              /\ pc[t] = "l171" =>
                    Forced(t) /\ arg[t].namespace \in DOMAIN PACKAGE_MIRRORS(t)

\* The assertion has been passed on the call of the preview branch, under a
\* configuration file.
C13_Witness ==
    \E t \in Threads :
        /\ Preparing(t) /\ pc[t] = "l183" /\ ret[t] = "l131"
        /\ config.kind = "file"

\* The configuration file is there but cannot be opened, or its text is not
\* a TOML mapping of namespaces to mirrors.
ConfigUnusable ==
    \/ config.kind = "unopenable"
    \/ config.kind = "file" /\ ~config.wellFormed

\* C14: when the configuration file exists but cannot be opened or does not
\* parse, building the registry neither fails nor panics, and the registry is
\* exactly the built-in default: no entry of the file is applied.
C14_UnusableConfigIsDefault ==
    \A p \in Procs :
        ConfigUnusable =>
            /\ reg[p].st # "poisoned"
            /\ reg[p].st = "ready" => reg[p].val = DefaultMirrors

\* C15: in a single process with no other writer, a fetch and unpack is only
\* ever started, and its GET only ever issued, while the target cache path
\* does not exist: up to the start of the unpack (line 192) the path is absent.
C15_FetchOnlyWhenAbsent ==
    \A t \in Threads :
        (Preparing(t) /\ pc[t] \in {"l171", "l183", "l191"}) =>
            cache.dirs[arg[t]] = "absent"

\* A fetch is under way for one spec while the cache holds another package.
C15_Witness ==
    \E t \in Threads :
        /\ Preparing(t) /\ pc[t] = "l191"
        /\ \E q \in Pkgs : cache.dirs[q] = "complete"

\* The call of t found the cache path of its spec in place: the path exists
\* and no unpack of this call has made it.
CacheHit(t) ==
    /\ Preparing(t) /\ ~DataExists(arg[t]) /\ CacheExists(arg[t])
    /\ pc[t] # "l192" /\ dl[t] = "-"

\* C16: a call that finds the cache path of its spec in place issues no
\* network request and ends in no other way than by returning Ok(that cache
\* path), whether or not the namespace is in the registry; so does every
\* later call for a spec that an earlier call has installed.
C16_CacheHit ==
    \A t \in Threads :
        CacheHit(t) =>
            /\ gets[t] = 0
            /\ pc[t] \in {"l109", "l120", "l124", "done"}
            /\ pc[t] = "done" => result[t] = Res("Ok", "cache", arg[t], "-")

\* C17: in a single process the second fetch, the one of the preview branch,
\* is never executed: every call issues at most one GET.
C17_NoSecondFetch ==
    \A t \in Threads :
        Preparing(t) => /\ gets[t] <= 1
                        /\ ret[t] # "l131"
                        /\ pc[t] # "l131"

\* A preview call has come back from its one fetch with the package installed.
C17_Witness ==
    \E t \in Threads :
        /\ Preparing(t) /\ pc[t] = "done" /\ arg[t].namespace = "preview"
        /\ gets[t] = 1 /\ dl[t] = "Ok"
        /\ result[t] = Res("Ok", "cache", arg[t], "-")

\* C18: nothing makes a call wait for another process: whatever the other
\* process is doing, to the same cache path or not, a call under way can take
\* its next step, the existence tests, the fetch and the unpack included.
C18_NoLocking ==
    \A t \in Threads :
        (Preparing(t) /\ pc[t] \in {"l109", "l120", "l124"} \cup Fetching) =>
            ENABLED Step(t)

\* Both processes passed the existence test and fetched the same spec; one
\* has returned Ok(cache path) while the unpack of the other is incomplete
\* and about to be rolled back.
C18_Witness ==
    \E t \in Threads, u \in Threads :
        /\ procOf[t] # procOf[u] /\ Preparing(t) /\ Preparing(u) /\ arg[t] = arg[u]
        /\ gets[t] = 1 /\ gets[u] = 1
        /\ pc[t] = "done" /\ result[t] = Res("Ok", "cache", arg[t], "-")
        /\ pc[u] = "l192" /\ archive[u] = "corrupt"
        /\ cache.dirs[arg[u]] = "partial"

\* The substitution with $version replaced first.
VersionFirst(path, pkg_name, pkg_version) ==
    replace(replace(path, VERSION, pkg_version), NAME, pkg_name)

\* Every "$" of the text begins a placeholder.
OnlyPlaceholders(path) ==
    \A i \in 1..Len(path) :
        path[i] = "$" => StartsWithAt(path, i, NAME) \/ StartsWithAt(path, i, VERSION)

NoDollar(s) == \A i \in 1..Len(s) : s[i] # "$"

\* What each placeholder replaced by the literal name or version gives.
Literal == SubstBoth(call.path, 1, call.pkg_name, call.pkg_version)

\* C19 as stated: for every template, name and version the order of the two
\* substitutions does not matter, and each placeholder of the template is
\* replaced by exactly the name or the version.
C19_OrderFree ==
    call.st = "ret" =>
        /\ call.out = VersionFirst(call.path, call.pkg_name, call.pkg_version)
        /\ call.out = Literal

\* C19: for every template in which each "$" begins a placeholder, and every
\* name and version without "$", the order of the two substitutions does not
\* matter, and each placeholder is replaced by exactly the name or the version.
C19_OrderFreeOnPlaceholders ==
    (/\ call.st = "ret"
     /\ OnlyPlaceholders(call.path) /\ NoDollar(call.pkg_name) /\ NoDollar(call.pkg_version)) =>
        /\ call.out = VersionFirst(call.path, call.pkg_name, call.pkg_version)
        /\ call.out = Literal

\* A URL was made from a template with both placeholders, $name twice.
C19_Witness ==
    /\ call.st = "ret"
    /\ OnlyPlaceholders(call.path) /\ NoDollar(call.pkg_name)
    /\ call.path = NAME \o VERSION \o NAME
    /\ call.out = call.pkg_name \o call.pkg_version \o call.pkg_name

====
